---- MODULE Spec2Model ----
(***************************************************************************)
(* SimpleVector<Type> (simple_vector.h) over ArrayPtr<Type> (array_ptr.h). *)
(* vec is the vector object the program works on; every public operation   *)
(* is one action.  A buffer is the sequence of the slots that were         *)
(* actually allocated for it (items) plus the identity of the array (buf,  *)
(* 0 = nullptr); size and cap are the fields size_ and capacity_.          *)
(* Operations on two vectors (copy, move, assignment, swap) take the       *)
(* second vector from Operands, the vector states the program can build,   *)
(* record both vectors before and after the call in last, and the program  *)
(* goes on with one of the two.  last holds the call just made and its     *)
(* outcome until the caller proceeds to the next call.                     *)
(* Type is instantiated with a trivially copyable type (int): new Type[n]  *)
(* leaves the slots indeterminate; Type{} is Default.                      *)
(* An access outside the allocated slots is undefined behaviour: the       *)
(* operation either aborts the program, or goes on with the stray write    *)
(* lost and the stray read yielding an arbitrary value.                    *)
(* ptr and heap model ArrayPtr on its own: ptr is the raw_ptr_ of each      *)
(* ArrayPtr object of a program, heap the fate of each array it allocated. *)
(***************************************************************************)
EXTENDS Integers, Sequences, FiniteSets, TLC

VARIABLES vec, last, ptr, heap

vars == <<vec, last, ptr, heap>>

\* largest capacity (and largest size argument) explored
MaxCap == 4
\* element values are 0..MaxVal
MaxVal == 1
\* largest capacity of the second vector of a two-vector operation
OperandCap == 1
\* longest vector that vec is compared with
CompareLen == 2
\* ArrayPtr objects of a program, and arrays they allocate in all
MaxHandles == 3
MaxArrays == 3
\* array identities: enough for two vectors and one temporary
BufIds == {1, 2, 3}

Values == 0..MaxVal
\* Type{}
Default == 0
Sizes == 0..MaxCap

Max(a, b) == IF a >= b THEN a ELSE b
Min(a, b) == IF a <= b THEN a ELSE b

\* a default-constructed SimpleVector: null items_, size_ = 0, capacity_ = 0
EmptyVec == [items |-> <<>>, size |-> 0, cap |-> 0, buf |-> 0]

\* ArrayPtr(size): nullptr when size = 0, else new Type[size] (contents fresh)
NewArray(n, fresh, id) ==
    IF n = 0 THEN [items |-> <<>>, buf |-> 0]
    ELSE [items |-> fresh, buf |-> id]

\* the array identity the next allocation gets: the least one not in used
FreshId(used) == CHOOSE id \in BufIds \ used :
                    \A other \in BufIds \ used : id <= other

\* *(raw_ptr_ + index) read: past the allocated slots the value is arbitrary (g)
Read(items, index, g) ==
    IF index < Len(items) THEN items[index + 1] ELSE g

\* *(raw_ptr_ + index) = value: past the allocated slots the write is lost
WriteAt(items, index, value) ==
    IF index < Len(items) THEN [items EXCEPT ![index + 1] = value] ELSE items

\* std::copy / std::move / std::copy_backward / std::uninitialized_copy of
\* count elements src[from ..) to dst[to ..)
Transfer(dst, src, from, to, count, g) ==
    [i \in 1..Len(dst) |->
        IF i - 1 >= to /\ i - 1 < to + count
        THEN Read(src, from + (i - 1 - to), g)
        ELSE dst[i]]

\* std::fill / the fill loop: slots [from, to) := value
Fill(items, from, to, value) ==
    [i \in 1..Len(items) |->
        IF i - 1 >= from /\ i - 1 < to THEN value ELSE items[i]]

\* result of one operation: the vector afterwards, whether it touched memory
\* outside its buffers, the exception thrown, the value or index returned
Res(v, ub, thrown, ret) ==
    [v |-> v, ub |-> ub, thrown |-> thrown, ret |-> ret]

NoRet == -1

----------------------------------------------------------------------------
(* Constructors *)

\* SimpleVector(size_t size, const Type& value); SimpleVector(size) passes Type{}
SizeCtor(n, value, fresh, id) ==
    LET a == NewArray(n, fresh, id)
    IN  Res([items |-> Fill(a.items, 0, n, value), size |-> n, cap |-> n,
             buf |-> a.buf], FALSE, "none", NoRet)

\* SimpleVector(std::initializer_list<Type> init)
InitListCtor(init, fresh, id) ==
    LET a == NewArray(Len(init), fresh, id)
    IN  Res([items |-> Transfer(a.items, init, 0, 0, Len(init), Default),
             size |-> Len(init), cap |-> Len(init), buf |-> a.buf],
            FALSE, "none", NoRet)

\* SimpleVector(const SimpleVector& other)
CopyCtor(other, fresh, id, g) ==
    LET a == NewArray(other.size, fresh, id)
    IN  Res([items |-> Transfer(a.items, other.items, 0, 0, other.size, g),
             size |-> other.size, cap |-> other.cap, buf |-> a.buf],
            other.size > Len(other.items), "none", NoRet)

----------------------------------------------------------------------------
(* Member functions.  ok = FALSE: the allocation of the new array throws.  *)

\* Clear that also gives the capacity up
ClearShrinking(v) == [v EXCEPT !.size = 0, !.cap = 0]

\* Clear that also frees the buffer
ClearReleasing(v) == [v EXCEPT !.size = 0, !.items = <<>>, !.buf = 0]

\* void Clear() noexcept
Clear(v) == [v EXCEPT !.size = 0]

\* Reserve that sets capacity_ before it allocates the new array
ReserveCommitFirst(v, n, ok, fresh, id, g) ==
    IF n <= v.cap THEN Res(v, FALSE, "none", NoRet)
    ELSE IF ~ok THEN Res([v EXCEPT !.cap = n], FALSE, "bad_alloc", NoRet)
    ELSE LET tmp == NewArray(n, fresh, id)
         IN  Res([items |-> Transfer(tmp.items, v.items, 0, 0, v.size, g),
                  size |-> v.size, cap |-> n, buf |-> tmp.buf],
                 v.size > Len(v.items), "none", NoRet)

\* void Reserve(size_t new_capacity)
Reserve(v, n, ok, fresh, id, g) ==
    IF n <= v.cap THEN Res(v, FALSE, "none", NoRet)
    ELSE IF ~ok THEN Res(v, FALSE, "bad_alloc", NoRet)
    ELSE LET tmp == NewArray(n, fresh, id)
         IN  Res([items |-> Transfer(tmp.items, v.items, 0, 0, v.size, g),
                  size |-> v.size, cap |-> n, buf |-> tmp.buf],
                 v.size > Len(v.items), "none", NoRet)

\* SimpleVector(ReserveProxyObj capacity_to_reserve)
ReserveCtor(n, ok, fresh, id) == Reserve(EmptyVec, n, ok, fresh, id, Default)

\* a Resize that allocates exactly the requested size
ResizeCapacityExact(v, n) == n

\* the capacity Resize allocates: std::max(new_size, capacity_ * 2)
ResizeCapacity(v, n) == Max(n, v.cap * 2)

\* void Resize(size_t new_size)
Resize(v, n, ok, fresh, id, g) ==
    IF v.size = n THEN Res(v, FALSE, "none", NoRet)
    ELSE IF v.size < n /\ v.cap < n THEN
         IF ~ok THEN Res(v, FALSE, "bad_alloc", NoRet)
         ELSE LET tmp == NewArray(ResizeCapacity(v, n), fresh, id)
                  moved == Transfer(tmp.items, v.items, 0, 0, v.size, g)
              IN  Res([items |-> Fill(moved, v.size, n, Default), size |-> n,
                       cap |-> ResizeCapacity(v, n), buf |-> tmp.buf],
                      v.size > Len(v.items), "none", NoRet)
    ELSE IF v.size < n /\ v.cap > n THEN
         Res([v EXCEPT !.items = Fill(v.items, v.size, n, Default), !.size = n],
             n > Len(v.items), "none", NoRet)
    ELSE Res([v EXCEPT !.size = n], FALSE, "none", NoRet)

\* the capacity PushBack and Insert allocate: std::max(size_t(1), capacity_ * 2)
GrowCapacity(v) == Max(1, v.cap * 2)

\* void PushBack(const Type& item) / void PushBack(Type&& item)
PushBack(v, item, ok, fresh, id, g) ==
    IF v.size < v.cap THEN
         Res([v EXCEPT !.items = WriteAt(v.items, v.size, item),
                       !.size = v.size + 1],
             v.size >= Len(v.items), "none", NoRet)
    ELSE IF ~ok THEN Res(v, FALSE, "bad_alloc", NoRet)
    ELSE LET tmp == NewArray(GrowCapacity(v), fresh, id)
             copied == Transfer(tmp.items, v.items, 0, 0, v.size, g)
         IN  Res([items |-> WriteAt(copied, v.size, item), size |-> v.size + 1,
                  cap |-> GrowCapacity(v), buf |-> tmp.buf],
                 v.size > Len(v.items), "none", NoRet)

\* Iterator Insert(ConstIterator pos, const Type& value) / (.., Type&& value)
\* pos = begin() + k; the iterator returned is &items_[k]
Insert(v, k, value, ok, fresh, id, g) ==
    IF v.size < v.cap THEN
         LET shifted == Transfer(v.items, v.items, k, k + 1, v.size - k, g)
         IN  Res([v EXCEPT !.items = WriteAt(shifted, k, value),
                           !.size = v.size + 1],
                 v.size >= Len(v.items), "none", k)
    ELSE IF ~ok THEN Res(v, FALSE, "bad_alloc", NoRet)
    ELSE LET tmp == NewArray(GrowCapacity(v), fresh, id)
             head == Transfer(tmp.items, v.items, 0, 0, k, g)
             tail == Transfer(head, v.items, k, k + 1, v.size - k, g)
         IN  Res([items |-> WriteAt(tail, k, value), size |-> v.size + 1,
                  cap |-> GrowCapacity(v), buf |-> tmp.buf],
                 v.size > Len(v.items), "none", k)

\* void PopBack() noexcept
PopBack(v) == [v EXCEPT !.size = v.size - 1]

\* Iterator Erase(ConstIterator pos), pos = begin() + k; returns pos
Erase(v, k, g) ==
    Res([v EXCEPT !.items = Transfer(v.items, v.items, k + 1, k,
                                     v.size - (k + 1), g),
                  !.size = v.size - 1],
        v.size - (k + 1) > 0 /\ v.size > Len(v.items), "none", k)

\* v.Insert(v.begin(), value); v.Erase(v.begin()); one call right after the
\* other (the Erase is not reached when the Insert throws)
InsertThenErase(v, value, ok, fresh, id, g) ==
    LET ins == Insert(v, 0, value, ok, fresh, id, g)
        era == Erase(ins.v, 0, g)
    IN  IF ins.thrown # "none" THEN ins
        ELSE Res(era.v, ins.ub \/ era.ub, "none", era.ret)

\* Type& operator[](size_t index) noexcept in a build with assertions on:
\* assert(size_ >= index); return items_[index];
Subscript(v, index, g) ==
    IF ~(v.size >= index) THEN Res(v, FALSE, "assert", NoRet)
    ELSE Res(v, index >= Len(v.items), "none", Read(v.items, index, g))

\* Type& At(size_t index)
At(v, index, g) ==
    IF ~(index < v.size) THEN Res(v, FALSE, "out_of_range", NoRet)
    ELSE Res(v, index >= Len(v.items), "none", Read(v.items, index, g))

\* void swap(SimpleVector& other) noexcept: <<this, other>> afterwards
Swap(this, other) == <<other, this>>

\* a move constructor that leaves its source as it was
MoveCtorKeepingSource(other) == <<other, other>>

\* SimpleVector(SimpleVector&& other): <<the new vector, other>> afterwards
MoveCtor(other) == Swap(EmptyVec, other)

\* SimpleVector& operator=(const SimpleVector& rhs); same: this == &rhs
CopyAssign(this, rhs, same, ok, fresh, id, g) ==
    IF same THEN Res(this, FALSE, "none", NoRet)
    ELSE IF rhs.size = 0 THEN Res(Clear(this), FALSE, "none", NoRet)
    ELSE IF ~ok THEN Res(this, FALSE, "bad_alloc", NoRet)
    ELSE LET tmp == SizeCtor(rhs.size, Default, fresh, id).v
             copy == [tmp EXCEPT !.items =
                         Transfer(tmp.items, rhs.items, 0, 0, rhs.size, g)]
         IN  Res(Swap(this, copy)[1], rhs.size > Len(rhs.items), "none", NoRet)

\* a move assignment that swaps whatever rhs holds
MoveAssignAlwaysSwap(this, rhs, same) == Swap(this, rhs)

\* SimpleVector& operator=(SimpleVector&& rhs): <<this, rhs>> afterwards
MoveAssign(this, rhs, same) ==
    IF same THEN <<this, rhs>>
    ELSE IF rhs.size = 0 THEN <<Clear(this), rhs>>
    ELSE Swap(this, rhs)

\* outcome of a comparison: its value, and whether it read past a buffer
Cmp(val, ub) == [val |-> val, ub |-> ub]

\* std::equal(lhs.begin(), lhs.end(), rhs.begin()) from position i on
RECURSIVE StdEqual(_, _, _, _)
StdEqual(lhs, rhs, i, g) ==
    IF i >= lhs.size THEN Cmp(TRUE, FALSE)
    ELSE LET stray == i >= Len(lhs.items) \/ i >= Len(rhs.items)
             rest  == StdEqual(lhs, rhs, i + 1, g)
         IN  IF Read(lhs.items, i, g) # Read(rhs.items, i, g)
             THEN Cmp(FALSE, stray)
             ELSE Cmp(rest.val, stray \/ rest.ub)

\* std::lexicographical_compare(lhs.begin(), lhs.end(), rhs.begin(),
\* rhs.end()) from position i on
RECURSIVE LexicographicalCompare(_, _, _, _)
LexicographicalCompare(lhs, rhs, i, g) ==
    IF i >= lhs.size \/ i >= rhs.size
    THEN Cmp(i >= lhs.size /\ i < rhs.size, FALSE)
    ELSE LET stray == i >= Len(lhs.items) \/ i >= Len(rhs.items)
             a     == Read(lhs.items, i, g)
             b     == Read(rhs.items, i, g)
             rest  == LexicographicalCompare(lhs, rhs, i + 1, g)
         IN  IF a < b THEN Cmp(TRUE, stray)
             ELSE IF b < a THEN Cmp(FALSE, stray)
             ELSE Cmp(rest.val, stray \/ rest.ub)

\* bool operator==(lhs, rhs)
Equal(lhs, rhs, g) ==
    IF lhs.size = rhs.size THEN StdEqual(lhs, rhs, 0, g)
    ELSE Cmp(FALSE, FALSE)

\* bool operator!=(lhs, rhs)
NotEqual(lhs, rhs, g) ==
    Cmp(~Equal(lhs, rhs, g).val, Equal(lhs, rhs, g).ub)

\* bool operator<(lhs, rhs)
Less(lhs, rhs, g) == LexicographicalCompare(lhs, rhs, 0, g)

\* (lhs == rhs) || (lhs < rhs): when the first is true the second is not run
EqualOr(lhs, rhs, second, g) ==
    IF Equal(lhs, rhs, g).val THEN Equal(lhs, rhs, g)
    ELSE Cmp(second.val, Equal(lhs, rhs, g).ub \/ second.ub)

\* bool operator<=(lhs, rhs)
LessEqual(lhs, rhs, g) == EqualOr(lhs, rhs, Less(lhs, rhs, g), g)

\* bool operator>(lhs, rhs)
Greater(lhs, rhs, g) == Less(rhs, lhs, g)

\* bool operator>=(lhs, rhs)
GreaterEqual(lhs, rhs, g) == EqualOr(lhs, rhs, Less(rhs, lhs, g), g)

\* the six comparison operators by name
Compare(op, lhs, rhs, g) ==
    CASE op = "==" -> Equal(lhs, rhs, g)
      [] op = "!=" -> NotEqual(lhs, rhs, g)
      [] op = "<"  -> Less(lhs, rhs, g)
      [] op = "<=" -> LessEqual(lhs, rhs, g)
      [] op = ">"  -> Greater(lhs, rhs, g)
      [] op = ">=" -> GreaterEqual(lhs, rhs, g)

CompareOps == {"==", "!=", "<", "<=", ">", ">="}

----------------------------------------------------------------------------
(* The state machine: one action per public operation on vec.              *)

\* possible contents of a freshly allocated array of n slots
FreshSet(n) == [1..n -> Values]

\* sequences an initializer list can hold
InitLists == UNION {[1..n -> Values] : n \in Sizes}

\* the second vector of a two-vector operation: a vector built by
\* SimpleVector(init) and brought to size z by PopBack, Clear or Resize,
\* owning an array other than the one vec owns
Operands ==
    {w \in {[items |-> s, size |-> z, cap |-> Len(s),
             buf |-> IF Len(s) = 0 THEN 0 ELSE FreshId({vec.buf})] :
                s \in UNION {[1..n -> Values] : n \in 0..OperandCap},
                z \in 0..OperandCap} :
        w.size <= w.cap}

\* the vectors vec is compared with: built from an initializer list of up to
\* CompareLen elements, the operands above, and vec itself
CompareOperands ==
    {InitListCtor(s, s, FreshId({vec.buf})).v :
        s \in UNION {[1..n -> Values] : n \in 0..CompareLen}}
    \cup Operands \cup {vec}

\* contents of a new array whose n slots the call overwrites before any read
Overwritten(n) == {[i \in 1..n |-> Default]}

\* what a stray read can yield, where a call makes one
Junk(stray) == IF stray THEN Values ELSE {Default}

\* whether the allocation a call makes succeeds
AllocOk(allocates) == IF allocates THEN BOOLEAN ELSE {TRUE}

\* stands for the second vector in the record of a one-vector operation
NoVec == EmptyVec

\* records the call in last and installs its outcome; a call that touched
\* memory outside its buffers may instead abort the program
\*   pre/post: *this before and after; rpre/rpost: the other vector
Step(op, n, x, r, pre, rpre, rpost, follow) ==
    \E crash \in (IF r.ub THEN BOOLEAN ELSE {FALSE}) :
        /\ UNCHANGED <<ptr, heap>>
        /\ vec' = IF crash THEN vec ELSE follow
        /\ last' = [op |-> op, n |-> n, x |-> x,
                    ret |-> IF crash THEN NoRet ELSE r.ret,
                    thrown |-> r.thrown, crashed |-> crash, ub |-> r.ub,
                    pre |-> pre, post |-> IF crash THEN pre ELSE r.v,
                    rpre |-> rpre, rpost |-> IF crash THEN rpre ELSE rpost]

\* an operation on vec alone
Step1(op, n, x, r) == Step(op, n, x, r, vec, NoVec, NoVec, r.v)

\* last between two calls: the caller has taken note of the previous outcome
NoCall == [op |-> "none", n |-> 0, x |-> 0, ret |-> NoRet,
           thrown |-> "none", crashed |-> FALSE, ub |-> FALSE,
           pre |-> NoVec, post |-> NoVec, rpre |-> NoVec, rpost |-> NoVec]

\* the program is between two calls (and was not aborted)
Running == last = NoCall

\* the caller goes on after a call that did not abort the program
Proceed ==
    /\ last.op # "none"
    /\ ~last.crashed
    /\ last' = NoCall
    /\ UNCHANGED <<vec, ptr, heap>>

CallDefaultCtor ==
    /\ Running
    /\ Step1("DefaultCtor", 0, 0, Res(EmptyVec, FALSE, "none", NoRet))

CallSizeCtor ==
    /\ Running
    /\ \E n \in Sizes, value \in Values : \E fresh \in Overwritten(n) :
          Step1("SizeCtor", n, value,
                SizeCtor(n, value, fresh, FreshId({vec.buf})))

CallInitListCtor ==
    /\ Running
    /\ \E init \in InitLists :
          Step1("InitListCtor", Len(init), 0,
                InitListCtor(init, init, FreshId({vec.buf})))

CallReserveCtor ==
    /\ Running
    /\ \E n \in Sizes : \E fresh \in FreshSet(n) :
          Step1("ReserveCtor", n, 0,
                ReserveCtor(n, TRUE, fresh, FreshId({vec.buf})))

\* SimpleVector copy(vec); the program goes on with the copy
CallCopyCtor ==
    /\ Running
    /\ \E fresh \in FreshSet(vec.size), g \in Junk(vec.size > Len(vec.items)) :
          LET r == CopyCtor(vec, fresh, FreshId({vec.buf}), g)
          IN  Step("CopyCtor", 0, 0, r, NoVec, vec, vec, r.v)

\* SimpleVector moved(std::move(vec)); goes on with either of the two
CallMoveCtor ==
    /\ Running
    /\ \E keep \in {1, 2} :
          LET p == MoveCtor(vec)
          IN  Step("MoveCtor", 0, 0, Res(p[1], FALSE, "none", NoRet),
                   NoVec, vec, p[2], p[keep])

\* vec = w, w = vec (the program goes on with the assigned vector), vec = vec;
\* last.n is 1 for the self-assignment
CallCopyAssign ==
    /\ Running
    /\ \E w \in Operands \cup {vec}, lhs \in BOOLEAN :
          LET this == IF lhs THEN vec ELSE w
              rhs  == IF lhs THEN w ELSE vec
          IN  \E fresh \in Overwritten(rhs.size),
                 ok \in AllocOk(w # vec /\ rhs.size # 0),
                 g \in Junk(rhs.size > Len(rhs.items)) :
                 Step("CopyAssign", IF w = vec THEN 1 ELSE 0, 0,
                      CopyAssign(this, rhs, w = vec, ok, fresh,
                                 FreshId({this.buf, rhs.buf}), g),
                      this, rhs, rhs,
                      CopyAssign(this, rhs, w = vec, ok, fresh,
                                 FreshId({this.buf, rhs.buf}), g).v)

\* vec = std::move(w), w = std::move(vec), vec = std::move(vec); the program
\* goes on with either of the two; last.n is 1 for the self-assignment
CallMoveAssign ==
    /\ Running
    /\ \E w \in Operands \cup {vec}, lhs \in BOOLEAN, keep \in {1, 2} :
          LET this == IF lhs THEN vec ELSE w
              rhs  == IF lhs THEN w ELSE vec
              p    == MoveAssign(this, rhs, w = vec)
          IN  Step("MoveAssign", IF w = vec THEN 1 ELSE 0, 0, Res(p[1], FALSE, "none", NoRet),
                   this, rhs, p[2], p[keep])

\* vec.swap(w); the program goes on with vec
CallSwap ==
    /\ Running
    /\ \E w \in Operands :
          LET p == Swap(vec, w)
          IN  Step("swap", 0, 0, Res(p[1], FALSE, "none", NoRet),
                   vec, w, p[2], p[1])

\* vec op w for each of the six comparison operators; last.ret is 1 for true
CallCompare ==
    /\ Running
    /\ \E op \in CompareOps, w \in CompareOperands,
          g \in Junk(vec.size > Len(vec.items)) :
          LET c == Compare(op, vec, w, g)
          IN  Step(op, 0, 0,
                   Res(vec, c.ub, "none", IF c.val THEN 1 ELSE 0),
                   vec, w, w, vec)

\* vec[index] for any index, in range or not; a failed assertion aborts the
\* program
CallSubscript ==
    /\ Running
    /\ \E index \in 0..(MaxCap + 1) :
       \E g \in Junk(index >= Len(vec.items)) :
          LET r == Subscript(vec, index, g)
          IN  IF r.thrown = "assert"
              THEN /\ UNCHANGED <<vec, ptr, heap>>
                   /\ last' = [NoCall EXCEPT !.op = "operator[]",
                                             !.n = index,
                                             !.thrown = "assert",
                                             !.crashed = TRUE,
                                             !.pre = vec, !.post = vec]
              ELSE Step1("operator[]", index, 0, r)

CallAt ==
    /\ Running
    /\ \E index \in Sizes, g \in Junk(vec.size > Len(vec.items)) :
          Step("At", index, 0, At(vec, index, g), vec, NoVec, NoVec, vec)

CallClear ==
    /\ Running
    /\ Step1("Clear", 0, 0, Res(Clear(vec), FALSE, "none", NoRet))

CallReserve ==
    /\ Running
    /\ \E n \in Sizes, g \in Junk(vec.size > Len(vec.items)) :
       \E fresh \in FreshSet(IF n > vec.cap THEN n ELSE 0),
          ok \in AllocOk(n > vec.cap) :
          Step1("Reserve", n, 0,
                Reserve(vec, n, ok, fresh, FreshId({vec.buf}), g))

CallResize ==
    /\ Running
    /\ \E n \in Sizes, g \in Junk(vec.size > Len(vec.items)) :
          /\ ResizeCapacity(vec, n) <= MaxCap \/ n <= vec.cap
          /\ \E fresh \in FreshSet(IF vec.size < n /\ vec.cap < n
                                   THEN ResizeCapacity(vec, n) ELSE 0),
                ok \in AllocOk(vec.size < n /\ vec.cap < n) :
                Step1("Resize", n, 0,
                      Resize(vec, n, ok, fresh, FreshId({vec.buf}), g))

CallPushBack ==
    /\ Running
    /\ vec.size < vec.cap \/ GrowCapacity(vec) <= MaxCap
    /\ \E item \in Values, g \in Junk(vec.size > Len(vec.items)) :
       \E fresh \in FreshSet(IF vec.size < vec.cap THEN 0
                             ELSE GrowCapacity(vec)),
          ok \in AllocOk(~(vec.size < vec.cap)) :
          Step1("PushBack", 0, item,
                PushBack(vec, item, ok, fresh, FreshId({vec.buf}), g))

\* assert(pos >= begin() && pos <= end())
CallInsert ==
    /\ Running
    /\ vec.size < vec.cap \/ GrowCapacity(vec) <= MaxCap
    /\ \E k \in 0..vec.size, value \in Values,
          g \in Junk(vec.size > Len(vec.items)) :
       \E fresh \in FreshSet(IF vec.size < vec.cap THEN 0
                             ELSE GrowCapacity(vec)),
          ok \in AllocOk(~(vec.size < vec.cap)) :
          Step1("Insert", k, value,
                Insert(vec, k, value, ok, fresh, FreshId({vec.buf}), g))

\* Insert(begin(), value) immediately followed by Erase(begin())
CallInsertThenErase ==
    /\ Running
    /\ vec.size < vec.cap \/ GrowCapacity(vec) <= MaxCap
    /\ \E value \in Values, g \in Junk(vec.cap > Len(vec.items)) :
       \E fresh \in FreshSet(IF vec.size < vec.cap THEN 0
                             ELSE GrowCapacity(vec)),
          ok \in AllocOk(~(vec.size < vec.cap)) :
          Step1("InsertThenErase", 0, value,
                InsertThenErase(vec, value, ok, fresh, FreshId({vec.buf}), g))

\* assert(size_ != 0)
CallPopBack ==
    /\ Running
    /\ vec.size # 0
    /\ Step1("PopBack", 0, 0, Res(PopBack(vec), FALSE, "none", NoRet))

\* assert(pos >= begin() && pos < end())
CallErase ==
    /\ Running
    /\ \E k \in 0..(vec.size - 1), g \in Junk(vec.size > Len(vec.items)) :
          Step1("Erase", k, 0, Erase(vec, k, g))

----------------------------------------------------------------------------
(* ArrayPtr on its own: the ArrayPtr objects of a program (Handles) and the *)
(* arrays they allocate.  ptr[h] is raw_ptr_ of object h: NoObject while h  *)
(* does not exist (not yet constructed, or destroyed), Null for nullptr,   *)
(* else the array pointed to.  heap[a] tells what became of array a.       *)

Handles == 1..MaxHandles
Arrays == 1..MaxArrays
NoObject == -1
Null == 0

\* the object exists
Alive(h) == ptr[h] # NoObject

\* new Type[size]: the next array not handed out so far
NewTypeArray == CHOOSE a \in Arrays :
                    /\ heap[a] = "unused"
                    /\ \A b \in Arrays : heap[b] = "unused" => a <= b

\* delete[] p: nothing for nullptr, else the array is freed (once more)
DeleteArray(hp, p) ==
    IF p = Null THEN hp
    ELSE [hp EXCEPT ![p] = IF @ \in {"live", "released"} THEN "freed"
                           ELSE "freed_twice"]

\* the call just made on object h, with the other object o where there is one
PtrCall(op, h, o, thrown) ==
    [NoCall EXCEPT !.op = op, !.n = h, !.x = o, !.thrown = thrown]

\* ArrayPtr() = default
PtrDefaultCtor ==
    \E h \in Handles :
        /\ ~Alive(h)
        /\ ptr' = [ptr EXCEPT ![h] = Null]
        /\ last' = PtrCall("ArrayPtr()", h, h, "none")
        /\ UNCHANGED <<vec, heap>>

\* explicit ArrayPtr(size_t size); ok = FALSE: new Type[size] throws and no
\* object comes to exist
PtrSizeCtor ==
    \E h \in Handles, size \in {0, 1} :
    \E ok \in AllocOk(size # 0) :
        /\ ~Alive(h)
        /\ size # 0 => \E a \in Arrays : heap[a] = "unused"
        /\ IF size = 0
           THEN /\ ptr' = [ptr EXCEPT ![h] = Null]
                /\ heap' = heap
                /\ last' = PtrCall("ArrayPtr(size_t)", h, h, "none")
           ELSE IF ok
           THEN /\ ptr' = [ptr EXCEPT ![h] = NewTypeArray]
                /\ heap' = [heap EXCEPT ![NewTypeArray] = "live"]
                /\ last' = PtrCall("ArrayPtr(size_t)", h, h, "none")
           ELSE /\ UNCHANGED <<ptr, heap>>
                /\ last' = PtrCall("ArrayPtr(size_t)", h, h, "bad_alloc")
        /\ UNCHANGED vec

\* ArrayPtr(ArrayPtr&& other): raw_ptr_ = std::exchange(other.raw_ptr_, nullptr)
PtrMoveCtor ==
    \E h \in Handles, other \in Handles :
        /\ ~Alive(h)
        /\ Alive(other)
        /\ ptr' = [ptr EXCEPT ![h] = ptr[other], ![other] = Null]
        /\ last' = PtrCall("ArrayPtr(ArrayPtr&&)", h, other, "none")
        /\ UNCHANGED <<vec, heap>>

\* ~ArrayPtr(): delete[] raw_ptr_
PtrDtor ==
    \E h \in Handles :
        /\ Alive(h)
        /\ heap' = DeleteArray(heap, ptr[h])
        /\ ptr' = [ptr EXCEPT ![h] = NoObject]
        /\ last' = PtrCall("~ArrayPtr()", h, h, "none")
        /\ UNCHANGED vec

\* ArrayPtr& operator=(ArrayPtr&& rhs)
PtrMoveAssign ==
    \E h \in Handles, rhs \in Handles :
        /\ Alive(h)
        /\ Alive(rhs)
        /\ ptr' = IF h = rhs THEN ptr
                  ELSE [ptr EXCEPT ![h] = ptr[rhs], ![rhs] = Null]
        /\ last' = PtrCall("operator=(ArrayPtr&&)", h, rhs, "none")
        /\ UNCHANGED <<vec, heap>>

\* Type* Release() noexcept: the caller now answers for the array
PtrRelease ==
    \E h \in Handles :
        /\ Alive(h)
        /\ heap' = IF ptr[h] = Null THEN heap
                   ELSE [heap EXCEPT ![ptr[h]] = "released"]
        /\ ptr' = [ptr EXCEPT ![h] = Null]
        /\ last' = PtrCall("Release", h, h, "none")
        /\ UNCHANGED vec

\* void swap(ArrayPtr& other) noexcept
PtrSwap ==
    \E h \in Handles, other \in Handles :
        /\ Alive(h)
        /\ Alive(other)
        /\ ptr' = [ptr EXCEPT ![h] = ptr[other], ![other] = ptr[h]]
        /\ last' = PtrCall("ArrayPtr::swap", h, other, "none")
        /\ UNCHANGED <<vec, heap>>

----------------------------------------------------------------------------
Init ==
    /\ vec = EmptyVec
    /\ last = NoCall
    /\ ptr = [h \in Handles |-> NoObject]
    /\ heap = [a \in Arrays |-> "unused"]

Next ==
    \/ CallDefaultCtor
    \/ CallSizeCtor
    \/ CallInitListCtor
    \/ CallReserveCtor
    \/ CallCopyCtor
    \/ CallMoveCtor
    \/ CallCopyAssign
    \/ CallMoveAssign
    \/ CallSwap
    \/ CallAt
    \/ CallClear
    \/ CallReserve
    \/ CallResize
    \/ CallPushBack
    \/ CallInsert
    \/ CallPopBack
    \/ CallErase
    \/ CallInsertThenErase
    \/ CallCompare
    \/ CallSubscript
    \/ Proceed

Spec == Init /\ [][Next]_vars

NextPtr ==
    \/ PtrDefaultCtor
    \/ PtrSizeCtor
    \/ PtrMoveCtor
    \/ PtrDtor
    \/ PtrMoveAssign
    \/ PtrRelease
    \/ PtrSwap

SpecPtr == Init /\ [][NextPtr]_vars

----------------------------------------------------------------------------
(* Properties.  last.pre is the vector before the last call, vec after it. *)

\* the call returned normally: no exception, no abort
Returned == last.thrown = "none" /\ ~last.crashed

\* slot i of v is allocated and holds val
HoldsAt(v, i, val) == i < Len(v.items) /\ v.items[i + 1] = val

\* slot i of v and slot j of w are allocated and hold the same value
SameAt(v, i, w, j) ==
    /\ i < Len(v.items)
    /\ j < Len(w.items)
    /\ v.items[i + 1] = w.items[j + 1]

\* C1: in every reachable state size <= capacity, and capacity is the number
\* of slots allocated in the owned buffer (capacity 0 iff the buffer is null)
ClaimC1 ==
    /\ vec.size <= vec.cap
    /\ vec.cap = Len(vec.items)
    /\ (vec.cap = 0) <=> (vec.buf = 0)

\* C2: the copy constructor yields the size and the elements of other in
\* order, capacity exactly other.size, and leaves other unchanged
ClaimC2 ==
    (last.op = "CopyCtor" /\ Returned) =>
        /\ vec.size = last.rpre.size
        /\ \A i \in 0..(vec.size - 1) : SameAt(vec, i, last.rpre, i)
        /\ vec.cap = last.rpre.size
        /\ last.rpost = last.rpre

\* C3: after Resize(n) the size is n, the elements below min(s, n) are
\* unchanged and, when n > s, every element in [s, n) is Type{}
ClaimC3 ==
    (last.op = "Resize" /\ last.thrown = "none") =>
        /\ ~last.crashed
        /\ vec.size = last.n
        /\ \A i \in 0..(Min(last.pre.size, last.n) - 1) :
              SameAt(vec, i, last.pre, i)
        /\ \A i \in last.pre.size..(last.n - 1) : HoldsAt(vec, i, Default)

\* C4: after PushBack(x) the size is the old size plus one, the element at
\* the old size is x and the elements below it are unchanged
ClaimC4 ==
    (last.op = "PushBack" /\ last.thrown = "none") =>
        /\ ~last.crashed
        /\ vec.size = last.pre.size + 1
        /\ HoldsAt(vec, last.pre.size, last.x)
        /\ \A i \in 0..(last.pre.size - 1) : SameAt(vec, i, last.pre, i)

\* C5: At(i) throws out_of_range exactly when i >= size; below size it
\* returns the element at i; when it throws nothing has changed
ClaimC5 ==
    (last.op = "At") =>
        /\ (last.thrown = "out_of_range") <=> (last.n >= last.pre.size)
        /\ last.n < last.pre.size =>
              /\ ~last.crashed
              /\ HoldsAt(last.pre, last.n, last.ret)
        /\ last.thrown = "out_of_range" => vec = last.pre

\* C6: a growth whose allocation fails leaves the vector exactly as it
\* was: same size, capacity, elements and buffer
TheoremC6 ==
    (last.op \in {"Reserve", "Resize", "PushBack", "Insert"}
        /\ last.thrown = "bad_alloc") =>
        /\ vec = last.pre
        /\ ~last.ub

\* a Reserve beyond the capacity of a non-empty vector failed to allocate
WitnessC6 ==
    /\ last.op = "Reserve"
    /\ last.thrown = "bad_alloc"
    /\ last.n > last.pre.cap
    /\ last.pre.size >= 1

\* the calls after which C7 promises the capacity has not decreased
KeepsCapacity ==
    \/ last.op \in {"PushBack", "Insert", "Erase", "PopBack", "Clear",
                    "Resize", "Reserve", "At"}
    \/ last.op \in {"CopyAssign", "MoveAssign"} /\ last.rpre.size = 0

\* C7: across PushBack, Insert, Erase, PopBack, Clear, Resize, Reserve,
\* element access and assignment from an empty source the capacity of the
\* vector never decreases
TheoremC7 == KeepsCapacity => last.post.cap >= last.pre.cap

\* Clear emptied a vector that had elements and capacity
WitnessC7 ==
    /\ last.op = "Clear"
    /\ last.pre.size >= 1
    /\ vec.size = 0
    /\ vec.cap >= 1

\* C8: Reserve(n) with n <= capacity changes nothing; with n > capacity the
\* capacity becomes exactly n and size and elements are preserved in order
ClaimC8 ==
    (last.op = "Reserve" /\ last.thrown = "none") =>
        IF last.n <= last.pre.cap
        THEN vec = last.pre
        ELSE /\ ~last.crashed
             /\ vec.cap = last.n
             /\ vec.size = last.pre.size
             /\ \A i \in 0..(last.pre.size - 1) : SameAt(vec, i, last.pre, i)

\* C9: Insert(begin() + k, v) on a vector holding S yields S[0..k), v,
\* S[k..s), size s + 1, and returns the iterator to index k
ClaimC9 ==
    (last.op = "Insert" /\ last.thrown = "none") =>
        /\ ~last.crashed
        /\ vec.size = last.pre.size + 1
        /\ \A i \in 0..(last.n - 1) : SameAt(vec, i, last.pre, i)
        /\ HoldsAt(vec, last.n, last.x)
        /\ \A i \in last.n..(last.pre.size - 1) : SameAt(vec, i + 1, last.pre, i)
        /\ last.ret = last.n

\* C10: Erase(begin() + k) on a vector holding S yields S[0..k), S[k+1..s),
\* size s - 1, capacity unchanged, and returns the iterator to index k
ClaimC10 ==
    (last.op = "Erase") =>
        /\ ~last.crashed
        /\ vec.size = last.pre.size - 1
        /\ vec.cap = last.pre.cap
        /\ \A i \in 0..(last.n - 1) : SameAt(vec, i, last.pre, i)
        /\ \A i \in (last.n + 1)..(last.pre.size - 1) :
              SameAt(vec, i - 1, last.pre, i)
        /\ last.ret = last.n

\* C11: Insert(begin(), v) immediately followed by Erase(begin()) restores
\* the original size and the original logical sequence of elements
ClaimC11 ==
    (last.op = "InsertThenErase" /\ Returned) =>
        /\ vec.size = last.pre.size
        /\ \A i \in 0..(last.pre.size - 1) : SameAt(vec, i, last.pre, i)

\* C12: the move constructor gives the new vector the source's former buffer,
\* size, capacity and elements, and leaves the source with size 0,
\* capacity 0 and a null buffer
TheoremC12 ==
    last.op = "MoveCtor" =>
        /\ Returned
        /\ last.post = last.rpre
        /\ last.rpost.size = 0
        /\ last.rpost.cap = 0
        /\ last.rpost.buf = 0
        /\ last.rpost.items = <<>>

\* a vector holding elements was moved from
WitnessC12 ==
    /\ last.op = "MoveCtor"
    /\ last.rpre.size >= 1
    /\ last.rpre.buf # 0
    /\ last.post.buf = last.rpre.buf
    /\ last.rpost.cap = 0

\* C13: a = std::move(b) with a and b distinct exchanges buffer, size and
\* capacity when b is non-empty; when b has size 0 a ends with size 0 and its
\* own capacity, buffer and slots while b is unchanged; self-move-assignment
\* changes nothing
TheoremC13 ==
    last.op = "MoveAssign" =>
        /\ Returned
        /\ (last.n = 0 /\ last.rpre.size # 0) =>
              /\ last.post = last.rpre
              /\ last.rpost = last.pre
        /\ (last.n = 0 /\ last.rpre.size = 0) =>
              /\ last.post.size = 0
              /\ last.post.cap = last.pre.cap
              /\ last.post.buf = last.pre.buf
              /\ last.post.items = last.pre.items
              /\ last.rpost = last.rpre
        /\ last.n = 1 =>
              /\ last.post = last.pre
              /\ last.rpost = last.rpre

\* a vector with elements was move-assigned an empty one that had capacity
WitnessC13 ==
    /\ last.op = "MoveAssign"
    /\ last.n = 0
    /\ last.rpre.size = 0
    /\ last.rpre.cap >= 1
    /\ last.pre.size >= 1
    /\ last.post.size = 0
    /\ last.post.cap = last.pre.cap
    /\ last.rpost = last.rpre

\* C14: a = b with a and b distinct gives a the size and the elements of b and
\* the capacity b.size when b is non-empty, b unchanged; when b has size 0 a
\* ends with size 0 and its capacity and buffer untouched; self-assignment
\* changes nothing
ClaimC14 ==
    (last.op = "CopyAssign" /\ Returned) =>
        /\ (last.n = 0 /\ last.rpre.size # 0) =>
              /\ last.post.size = last.rpre.size
              /\ \A i \in 0..(last.rpre.size - 1) :
                    SameAt(last.post, i, last.rpre, i)
              /\ last.post.cap = last.rpre.size
              /\ last.rpost = last.rpre
        /\ (last.n = 0 /\ last.rpre.size = 0) =>
              /\ last.post.size = 0
              /\ last.post.cap = last.pre.cap
              /\ last.post.buf = last.pre.buf
              /\ last.post.items = last.pre.items
              /\ last.rpost = last.rpre
        /\ last.n = 1 =>
              /\ last.post = last.pre
              /\ last.rpost = last.rpre

\* a and b have the same size and equal elements at every index below it
SameSequence(a, b) ==
    /\ a.size = b.size
    /\ \A i \in 0..(a.size - 1) : SameAt(a, i, b, i)

\* a is lexicographically less than b over the elements below their sizes:
\* they agree up to some k where a ends and b goes on, or where a is smaller
Precedes(a, b) ==
    \E k \in 0..Min(a.size, b.size) :
        /\ \A i \in 0..(k - 1) : SameAt(a, i, b, i)
        /\ \/ k = a.size /\ k < b.size
           \/ /\ k < a.size
              /\ k < b.size
              /\ \E x, y \in Values :
                    HoldsAt(a, k, x) /\ HoldsAt(b, k, y) /\ x < y

\* C15: == holds iff the sizes are equal and the elements below the size are
\* pairwise equal, < iff the left sequence is lexicographically less, != iff
\* not ==, <= iff == or <, > iff the right is less than the left, >= iff == or
\* the right is less than the left; slots at or beyond the size play no part
ClaimC15 ==
    (last.op \in CompareOps /\ Returned) =>
        LET a == last.pre
            b == last.rpre
        IN  (last.ret = 1) <=>
                CASE last.op = "==" -> SameSequence(a, b)
                  [] last.op = "!=" -> ~SameSequence(a, b)
                  [] last.op = "<"  -> Precedes(a, b)
                  [] last.op = "<=" -> SameSequence(a, b) \/ Precedes(a, b)
                  [] last.op = ">"  -> Precedes(b, a)
                  [] last.op = ">=" -> SameSequence(a, b) \/ Precedes(b, a)

\* C16: a PushBack or Insert that returns leaves capacity max(1, 2 * old
\* capacity) when size equalled capacity and the old capacity when size was
\* below it; a Resize(n) that returns leaves max(n, 2 * old capacity) when n
\* exceeded the old capacity and the old capacity otherwise
TheoremC16 ==
    Returned =>
        /\ last.op \in {"PushBack", "Insert"} =>
              /\ last.pre.size = last.pre.cap =>
                    vec.cap = IF 2 * last.pre.cap >= 1 THEN 2 * last.pre.cap
                              ELSE 1
              /\ last.pre.size < last.pre.cap => vec.cap = last.pre.cap
        /\ last.op = "Resize" =>
              /\ last.n > last.pre.cap =>
                    vec.cap = IF last.n >= 2 * last.pre.cap THEN last.n
                              ELSE 2 * last.pre.cap
              /\ last.n <= last.pre.cap => vec.cap = last.pre.cap

\* a Resize beyond the capacity for which doubling exceeds the request
WitnessC16 ==
    /\ last.op = "Resize"
    /\ Returned
    /\ last.pre.cap = 2
    /\ last.n = 3
    /\ vec.cap = 4
    /\ vec.size = 3

\* C17: the assertion of operator[] fails for every index >= size and passes
\* for every index < size
ClaimC17 ==
    last.op = "operator[]" =>
        ((last.thrown = "assert") <=> (last.n >= last.pre.size))

\* C18: Clear() sets the size to 0 and leaves capacity, buffer and slots as
\* they were; a second Clear() right after it again gives size 0 and the
\* capacity from before the first call
TheoremC18 ==
    last.op = "Clear" =>
        /\ Returned
        /\ vec.size = 0
        /\ vec.cap = last.pre.cap
        /\ vec.buf = last.pre.buf
        /\ vec.items = last.pre.items
        /\ Clear(vec).size = 0
        /\ Clear(vec).cap = last.pre.cap
        /\ Clear(vec).buf = last.pre.buf

\* a vector holding elements in a buffer with room to spare was cleared
WitnessC18 ==
    /\ last.op = "Clear"
    /\ last.pre.size >= 1
    /\ last.pre.cap > last.pre.size
    /\ last.pre.buf # 0
    /\ vec.size = 0
    /\ vec.cap = last.pre.cap
    /\ Clear(vec) = vec

\* C19: every element read or write an operation called within its
\* preconditions makes on a buffer is at an index below the number of slots
\* allocated for that buffer (none for the null buffer)
ClaimC19 ==
    (last.op # "operator[]" \/ last.n < last.pre.size) => ~last.ub

\* C20: across any sequence of ArrayPtr operations every array that is
\* allocated and not freed is owned by exactly one object or was handed to the
\* caller by Release, no array is freed twice, no object points to an array
\* that is freed or released, and a move construction or move assignment from
\* another object leaves that object null
ClaimC20 ==
    /\ \A a \in Arrays :
          heap[a] = "live" => Cardinality({h \in Handles : ptr[h] = a}) = 1
    /\ \A a \in Arrays : heap[a] # "freed_twice"
    /\ \A h \in Handles : ptr[h] \in Arrays => heap[ptr[h]] = "live"
    /\ (/\ last.op \in {"ArrayPtr(ArrayPtr&&)", "operator=(ArrayPtr&&)"}
        /\ last.n # last.x) => ptr[last.x] = Null

\* the fields stay within the bounds explored, and size_ <= capacity_
TypeOK ==
    /\ vec.size \in Sizes
    /\ vec.cap \in Sizes
    /\ vec.size <= vec.cap
    /\ Len(vec.items) <= vec.cap
    /\ (vec.buf = 0) <=> (Len(vec.items) = 0)
====
